---- MODULE Spec2Model ----
(***************************************************************************)
(* Model of the content API of vibe-learning-python-backend:               *)
(*   src/app.py         upload_pdf, upload_content, delete_content,        *)
(*                      get_youtube_transcript and the read handlers       *)
(*   src/pdf_parser.py  PDFTextExtractor, process_pdf_file                 *)
(*   src/youtube_transcript.py  extract_youtube_transcript                 *)
(* The state is the three directories the handlers work on (uploads/,      *)
(* data/, data/images/), the request in progress, the response of the last *)
(* completed request and the error lines it logged.                        *)
(*                                                                         *)
(* Abstractions:                                                           *)
(*  - a text is represented by its character count, [chars |-> n];         *)
(*  - uuid.uuid4() yields the next unused element of 1..MaxUploads;        *)
(*  - the bytes of an uploaded document are not stored: what pypdf finds  *)
(*    in them (readable or not, the page count, each page) is an input    *)
(*    chosen at the step where the code reads it;                          *)
(*  - operating-system and library failures (a write, an unlink, a         *)
(*    rmtree) are inputs chosen at the step where the code makes the call; *)
(*  - a failed unlink or rmtree leaves its target as it was;               *)
(*  - saving the uploaded bytes under uploads/ succeeds;                   *)
(*  - a base64 string is its character count and its suffix;               *)
(*  - a page text seen by format_text is its content and its padding;      *)
(*  - delete_content takes any string as content_id, a glob pattern too.   *)
(*                                                                         *)
(* Specifications:                                                         *)
(*   Spec         upload_pdf step by step, and delete_content;             *)
(*   SpecUploads  Spec with upload_content;                                *)
(*   SpecStore    get_youtube_transcript, the read handlers,               *)
(*                upload_content and delete_content;                       *)
(*   SpecImages   the extraction of one page with failing images;          *)
(*   SpecViews    the read handlers, get_pdf_file, the topic extractor of  *)
(*                utils.py and delete_content over stored documents;       *)
(*   SpecConcurrent  upload_pdf requests interleaved step by step, each    *)
(*                beside a copy of itself running alone.                   *)
(***************************************************************************)
EXTENDS Integers, Sequences, FiniteSets, TLC

\* ------------------------------------------------------------------ bounds
MaxUploads == 1
MaxPages == 2
MaxSnippets == 2
MaxImages == 3
MaxIngestions == 2

\* ------------------------------------------------------- program constants
CharLimit == 100000
MaxUploadBytes == 52428800

\* -------------------------------------------------------------- the inputs
Ids == 1..MaxUploads
NoId == 0

\* A file name is its stem and its extension; "" is the empty file name.
FileNames == { [stem |-> "a", ext |-> ".pdf"], [stem |-> "a", ext |-> ".PDF"],
               [stem |-> "a", ext |-> ".txt"], [stem |-> "", ext |-> ""] }
NoName == [stem |-> "", ext |-> ""]
lower(ext) == IF ext = ".PDF" THEN ".pdf" ELSE ext
FileSizes == {MaxUploadBytes, MaxUploadBytes + 1}

Text(n) == [chars |-> n]
len(t) == t.chars

\* Python values whose type matters to json: a tuple and a list are both
\* written as a JSON array, None as null.
PyTuple(items) == [py |-> "tuple", items |-> items]
PyList(items) == [py |-> "list", items |-> items]
PyStr(str) == [py |-> "str", items |-> <<str>>]
PyNone == [py |-> "NoneType", items |-> << >>]

\* One embedded image of a page: its name in the PDF, the number of its
\* bytes, whether PIL can read them, and the step of the loop body at which handling it raises:
\* "iter" while page.images yields it, "data" while its bytes are read and
\* encoded, "open" when the output file is opened, "write" when the bytes are
\* written, "none" if nothing raises.
ImageFaults == {"none", "iter", "data", "open", "write"}
Image(name, nbytes, pil, fault) ==
    [name |-> name, nbytes |-> nbytes, pil |-> pil, fault |-> fault]
Img0 == Image("Im0.png", 76, TRUE, "none")

\* The pages a document is made of: the text pypdf extracts from the page,
\* its embedded images, and where (if anywhere) extracting the page raises:
\* "text" in extract_text_from_page, "images" while enumerating page.images
\* after the listed images have been handled.
PageKinds ==
    { [text |-> Text(CharLimit), imgs |-> << >>,     raises |-> "none"],
      [text |-> Text(1),         imgs |-> <<Img0>>,  raises |-> "none"],
      [text |-> Text(1),         imgs |-> <<Img0>>,  raises |-> "text"],
      [text |-> Text(1),         imgs |-> <<Img0>>,  raises |-> "images"] }

PageCounts == 0..MaxPages

\* ------------------------------------------------------------------- state
VARIABLES
    uploadDir,   \* UPLOAD_DIR: the files in it, [id, filename] for "<id>_<filename>"
    dataDir,     \* DATA_DIR: id -> NoFile or the content of "<id>.json"
    imagesDir,   \* IMAGES_DIR: id -> NoDir or the set of file names in "<id>/"
    issued,      \* how many uuids uuid4() has produced
    req,         \* the upload_pdf call in progress
    resp,        \* the outcome of the last completed request
    log          \* the logger.error lines of the last request

vars == <<uploadDir, dataDir, imagesDir, issued, req, resp, log>>

NoData == [content_id |-> NoId, pdf_info |-> [num_pages |-> 0], total_pages |-> 0,
           pages |-> << >>]
NoFile == [exists |-> FALSE, complete |-> FALSE, data |-> NoData]
NoDir == [exists |-> FALSE, files |-> {}]
NoExc == [type |-> "none", msg |-> "none", n |-> 0]
Idle == [pc |-> "idle", file_id |-> NoId, filename |-> NoName,
         num_pages |-> 0, page_num |-> 0, all_content |-> << >>,
         processed_data |-> NoData,
         exc |-> NoExc]

\* code: the HTTP status; detail: the HTTPException the client receives;
\* cause: the HTTPException raised first, when the handler re-raised it inside
\* another one; error: the exception process_pdf_file ended with.
\* data: the "data" member of a success response of a read handler.
NoResp == [op |-> "none", id |-> NoId, code |-> 0, status |-> "none",
           detail |-> "none", cause |-> "none", error |-> NoExc,
           deleted_items |-> {}, data |-> NoData]

Init ==
    /\ uploadDir = {}
    /\ dataDir = [i \in Ids |-> NoFile]
    /\ imagesDir = [i \in Ids |-> NoDir]
    /\ issued = 0
    /\ req = Idle
    /\ resp = NoResp
    /\ log = {}


\* ------------------------------------------------ pdf_parser.py: extraction

\* "page_{page_number}_{image_name}" inside the document's image directory
image_file_name(page_number, image_name) == <<page_number, image_name>>

\* extract_images_from_page with save_to_disk: the image_info list it returns,
\* the files it wrote, and whether enumerating page.images raised after them.
\* The image_info of one image: PIL gives the format and the size pair, or
\* neither.
\* dict.get(key, default)
get(d, key, default) == IF key \in DOMAIN d THEN d[key] ELSE default

\* base64.b64encode(image_data).decode('utf-8'): four characters for every
\* three bytes, the last group padded. A string made from the encoding is
\* represented by how many of its leading characters it holds and by the
\* literal appended to them.
b64encode(nbytes) == [chars |-> 4 * ((nbytes + 2) \div 3), suffix |-> ""]

image_info(img, page_number) ==
    [ name |-> img.name,
      data |-> img.nbytes,
      base64 |-> b64encode(img.nbytes),
      format |-> IF img.pil THEN PyStr("PNG") ELSE PyNone,
      size |-> IF img.pil THEN PyTuple(<<1, 1>>) ELSE PyNone,
      page_number |-> page_number,
      file_path |-> image_file_name(page_number, img.name) ]

\* The images page.images yields before the iteration raises (all of them
\* if it does not).
RECURSIVE yielded(_)
yielded(imgs) ==
    IF imgs = << >> \/ Head(imgs).fault = "iter" THEN << >>
    ELSE <<Head(imgs)>> \o yielded(Tail(imgs))

\* The loop body: an image whose handling raises inside the try is skipped.
RECURSIVE collected(_, _)
collected(imgs, page_number) ==
    IF imgs = << >> THEN << >>
    ELSE (IF Head(imgs).fault = "none"
          THEN <<image_info(Head(imgs), page_number)>> ELSE << >>)
         \o collected(Tail(imgs), page_number)

extract_images_from_page(page, page_number) ==
    LET seen == yielded(page.imgs)
    IN  [ images |-> collected(seen, page_number),
          files |-> { image_file_name(page_number, seen[k].name) :
                        k \in { j \in 1..Len(seen) :
                                  seen[j].fault \in {"none", "write"} } },
          raised |-> Len(seen) < Len(page.imgs) \/ page.raises = "images" ]

\* extract_content_from_page: the text first, then the images. mkdir says
\* whether os.makedirs(output_dir) was reached.
extract_content_from_page(page, page_number) ==
    IF page.raises = "text"
    THEN [ raised |-> TRUE, mkdir |-> FALSE, files |-> {},
           content |-> [page_number |-> page_number, text |-> Text(0),
                        images |-> << >>] ]
    ELSE LET im == extract_images_from_page(page, page_number)
         IN  [ raised |-> im.raised, mkdir |-> TRUE, files |-> im.files,
               content |-> [page_number |-> page_number, text |-> page.text,
                            images |-> im.images] ]

\* The empty content extract_content_all_pages adds for a failed page.
empty_content(page_num) ==
    [page_number |-> page_num, text |-> Text(0), images |-> << >>]

\* Mutant: a failed page is skipped instead of replaced by an empty one.
walk_append_skips_failed(all_content, page_num, r) ==
    IF r.raised THEN all_content ELSE Append(all_content, r.content)

\* Mutant: a failed page discards the pages collected before it.
walk_append_drops_earlier(all_content, page_num, r) ==
    IF r.raised THEN <<empty_content(page_num)>> ELSE Append(all_content, r.content)

\* One iteration of the loop of extract_content_all_pages.
walk_append(all_content, page_num, r) ==
    Append(all_content, IF r.raised THEN empty_content(page_num) ELSE r.content)

RECURSIVE total_characters(_)
total_characters(all_content) ==
    IF all_content = << >> THEN 0
    ELSE len(Head(all_content).text) + total_characters(Tail(all_content))

\* Mutant: the limit itself is rejected.
exceeds_limit_at_limit(total) == total >= CharLimit

exceeds_limit(total) == total > CharLimit

\* base64[:100] + "..." if len(base64) > 100 else base64
\* Mutant: the preview is cut at 100 characters whatever the length.
base64_preview_always_cut(base64) ==
    [chars |-> IF base64.chars > 100 THEN 100 ELSE base64.chars, suffix |-> "..."]

base64_preview(base64) ==
    IF base64.chars > 100 THEN [chars |-> 100, suffix |-> "..."] ELSE base64

image_data(img_idx, img_info) ==
    [ image_index |-> img_idx + 1,
      image_name |-> img_info.name,
      image_format |-> get(img_info, "format", PyStr("unknown")),
      image_size |-> get(img_info, "size", PyNone),
      image_path |-> get(img_info, "file_path", ""),
      base64_preview |-> base64_preview(get(img_info, "base64", b64encode(0))) ]

\* Mutant: the two counts are left at zero.
page_data_without_counts(page_content) ==
    [ page_number |-> page_content.page_number + 1,
      text |-> page_content.text,
      text_length |-> 0,
      images |-> [k \in 1..Len(page_content.images) |->
                    image_data(k - 1, page_content.images[k])],
      image_count |-> 0 ]

page_data(page_content) ==
    [ page_number |-> page_content.page_number + 1,
      text |-> page_content.text,
      text_length |-> len(page_content.text),
      images |-> [k \in 1..Len(page_content.images) |->
                    image_data(k - 1, page_content.images[k])],
      image_count |-> Len(page_content.images) ]

processed_data(content_id, num_pages, all_content) ==
    [ content_id |-> content_id,
      pdf_info |-> [num_pages |-> num_pages],
      total_pages |-> Len(all_content),
      pages |-> [i \in 1..Len(all_content) |-> page_data(all_content[i])] ]

\* What json.dump writes for a Python value and what json.load makes of it:
\* tuples and lists become arrays and come back as lists.
JsonOf(v) ==
    CASE v.py \in {"tuple", "list"} -> [json |-> "array", items |-> v.items]
      [] v.py = "NoneType" -> [json |-> "null", items |-> << >>]
      [] OTHER -> [json |-> "string", items |-> v.items]

PyOf(j) ==
    CASE j.json = "array" -> PyList(j.items)
      [] j.json = "null" -> PyNone
      [] OTHER -> [py |-> "str", items |-> j.items]

\* json.dump(processed_data, f) and json.load(f) on a content record: the
\* numbers and strings are kept, the image formats and sizes are converted.
json_encode(data) ==
    IF "pages" \notin DOMAIN data THEN data ELSE
    [data EXCEPT !.pages =
        [i \in 1..Len(data.pages) |->
            [data.pages[i] EXCEPT !.images =
                [k \in 1..Len(data.pages[i].images) |->
                    [data.pages[i].images[k] EXCEPT
                        !.image_format = JsonOf(@), !.image_size = JsonOf(@)]]]]]

json_load(doc) ==
    IF "pages" \notin DOMAIN doc THEN doc ELSE
    [doc EXCEPT !.pages =
        [i \in 1..Len(doc.pages) |->
            [doc.pages[i] EXCEPT !.images =
                [k \in 1..Len(doc.pages[i].images) |->
                    [doc.pages[i].images[k] EXCEPT
                        !.image_format = PyOf(@), !.image_size = PyOf(@)]]]]]


\* ------------------------------------------------------ app.py: upload_pdf

PdfFile == "PDF file"
DataFile == "Data file"
ImagesDirectory == "Images directory"
Kinds == {PdfFile, DataFile, ImagesDirectory}

\* The artifacts of a content id that exist: what UPLOAD_DIR.glob("<id>_*"),
\* (DATA_DIR / "<id>.json").exists() and (IMAGES_DIR / id).exists() find.
glob_uploads(content_id) == { f \in uploadDir : f.id = content_id }
Artifacts(content_id) ==
    (IF glob_uploads(content_id) # {} THEN {PdfFile} ELSE {})
    \cup (IF dataDir[content_id].exists THEN {DataFile} ELSE {})
    \cup (IF imagesDir[content_id].exists THEN {ImagesDirectory} ELSE {})

\* The outer handler of upload_pdf: "except Exception as e" also catches the
\* HTTPException raised inside the try block and raises a 500 in its place.
upload_error(id, cause, exc) ==
    [NoResp EXCEPT !.op = "upload_pdf", !.id = id, !.code = 500,
                   !.status = "error", !.detail = "Error uploading PDF",
                   !.cause = cause, !.error = exc]

allowed_filename(filename) ==
    filename # NoName /\ lower(filename.ext) = ".pdf"

\* Mutant: a file of exactly 50 MiB is rejected too.
allowed_size_below(file_size) == ~(file_size >= MaxUploadBytes)

allowed_size(file_size) == ~(file_size > MaxUploadBytes)

\* upload_pdf up to the call of process_pdf_file: validation, uuid4, saving
\* the file.
upload_pdf_begin(filename, file_size) ==
    /\ req.pc = "idle"
    /\ IF ~allowed_filename(filename)
       THEN /\ resp' = upload_error(NoId, "Only PDF files are allowed", NoExc)
            /\ log' = {"Error uploading PDF"}
            /\ UNCHANGED <<uploadDir, issued, req>>
       ELSE IF ~allowed_size(file_size)
       THEN /\ resp' = upload_error(NoId, "File size exceeds 50MB limit", NoExc)
            /\ log' = {"Error uploading PDF"}
            /\ UNCHANGED <<uploadDir, issued, req>>
       ELSE /\ issued < MaxUploads
            /\ issued' = issued + 1
            /\ uploadDir' = uploadDir \cup {[id |-> issued + 1, filename |-> filename]}
            /\ resp' = NoResp
            /\ log' = {}
            /\ req' = [Idle EXCEPT !.pc = "open", !.file_id = issued + 1,
                                   !.filename = filename]
    /\ UNCHANGED <<dataDir, imagesDir>>

\* process_pdf_file: PDFTextExtractor(str(file_path)) and get_pdf_info()
\* readable: whether PdfReader can read the file; num_pages: len(reader.pages).
PDFTextExtractor_init(readable, num_pages) ==
    /\ req.pc = "open"
    /\ IF readable
       THEN /\ req' = [req EXCEPT !.pc = "walk", !.num_pages = num_pages]
            /\ UNCHANGED log
       ELSE /\ req' = [req EXCEPT !.pc = "failed",
                          !.exc = [type |-> "Exception",
                                   msg |-> "Error reading PDF file", n |-> 0]]
            /\ log' = log \cup {"Error processing PDF"}
    /\ UNCHANGED <<uploadDir, dataDir, imagesDir, issued, resp>>

\* One iteration of extract_content_all_pages, writing the page's images
\* under IMAGES_DIR / content_id. page: what reader.pages[page_num] holds.
extract_content_all_pages_step(page) ==
    /\ req.pc = "walk"
    /\ req.page_num < req.num_pages
    /\ LET page_num == req.page_num
           r == extract_content_from_page(page, page_num)
           dir == imagesDir[req.file_id]
       IN  /\ req' = [req EXCEPT !.all_content = walk_append(@, page_num, r),
                                 !.page_num = page_num + 1]
           /\ imagesDir' = IF r.mkdir
                           THEN [imagesDir EXCEPT ![req.file_id] =
                                   [exists |-> TRUE, files |-> dir.files \cup r.files]]
                           ELSE imagesDir
    /\ UNCHANGED <<uploadDir, dataDir, issued, resp, log>>

\* Mutant: the character limit is checked once a page has been read,
\* whether or not pages are left.
size_guard_after_one_page ==
    /\ req.pc = "walk"
    /\ req.page_num = req.num_pages \/ req.page_num >= 1
    /\ LET total == total_characters(req.all_content)
       IN  IF exceeds_limit(total)
           THEN /\ req' = [req EXCEPT !.pc = "failed",
                              !.exc = [type |-> "ValueError",
                                       msg |-> "Document exceeds 100,000 character limit",
                                       n |-> total]]
                /\ log' = log \cup {"Error processing PDF"}
           ELSE /\ req' = [req EXCEPT !.pc = "persist",
                              !.processed_data =
                                  processed_data(req.file_id, req.num_pages,
                                                 req.all_content)]
                /\ UNCHANGED log
    /\ UNCHANGED <<uploadDir, dataDir, imagesDir, issued, resp>>

\* process_pdf_file after the walk: the character limit, then the record.
size_guard ==
    /\ req.pc = "walk"
    /\ req.page_num = req.num_pages
    /\ LET total == total_characters(req.all_content)
       IN  IF exceeds_limit(total)
           THEN /\ req' = [req EXCEPT !.pc = "failed",
                              !.exc = [type |-> "ValueError",
                                       msg |-> "Document exceeds 100,000 character limit",
                                       n |-> total]]
                /\ log' = log \cup {"Error processing PDF"}
           ELSE /\ req' = [req EXCEPT !.pc = "persist",
                              !.processed_data =
                                  processed_data(req.file_id, req.num_pages,
                                                 req.all_content)]
                /\ UNCHANGED log
    /\ UNCHANGED <<uploadDir, dataDir, imagesDir, issued, resp>>

\* open(json_file_path, 'w'): creates (truncates) the file, or raises OSError.
json_open(ok) ==
    /\ req.pc = "persist"
    /\ IF ok
       THEN /\ dataDir' = [dataDir EXCEPT ![req.file_id] =
                              [exists |-> TRUE, complete |-> FALSE, data |-> NoData]]
            /\ req' = [req EXCEPT !.pc = "dump"]
            /\ UNCHANGED log
       ELSE /\ req' = [req EXCEPT !.pc = "failed",
                          !.exc = [type |-> "Exception",
                                   msg |-> "cannot open data file", n |-> 0]]
            /\ log' = log \cup {"Error processing PDF"}
            /\ UNCHANGED dataDir
    /\ UNCHANGED <<uploadDir, imagesDir, issued, resp>>

\* json.dump(processed_data, f): writes the whole record, or raises part-way
\* (a ValueError such as UnicodeEncodeError, or another exception such as
\* OSError or TypeError), leaving what was written so far.
json_dump(outcome) ==
    /\ req.pc = "dump"
    /\ IF outcome = "ok"
       THEN /\ dataDir' = [dataDir EXCEPT ![req.file_id] =
                              [exists |-> TRUE, complete |-> TRUE,
                               data |-> json_encode(req.processed_data)]]
            /\ req' = [req EXCEPT !.pc = "returned"]
            /\ UNCHANGED log
       ELSE /\ req' = [req EXCEPT !.pc = "failed",
                          !.exc = [type |-> outcome,
                                   msg |-> "cannot write data file", n |-> 0]]
            /\ log' = log \cup {"Error processing PDF"}
            /\ UNCHANGED dataDir
    /\ UNCHANGED <<uploadDir, imagesDir, issued, resp>>

\* upload_pdf after process_pdf_file returned: the summary response.
upload_pdf_processed ==
    /\ req.pc = "returned"
    /\ resp' = [NoResp EXCEPT !.op = "upload_pdf", !.id = req.file_id, !.code = 200,
                              !.status = "processed",
                              !.detail = "PDF uploaded and processed successfully"]
    /\ req' = Idle
    /\ UNCHANGED <<uploadDir, dataDir, imagesDir, issued, log>>

\* One clean-up of the "except ValueError" handler: remove the artifact if it
\* exists; a removal that raises is logged and the artifact stays.
\* Mutant: the handler forgets the image directory.
cleanup_removes_keeps_images(kind, existing, raising) ==
    kind \in existing /\ kind \notin raising /\ kind # ImagesDirectory

\* Mutant: the first removal that raises ends the clean-up.
cleanup_removes_until_error(kind, existing, raising) ==
    /\ kind \in existing /\ kind \notin raising
    /\ (kind = DataFile => PdfFile \notin existing \cap raising)
    /\ (kind = ImagesDirectory => {PdfFile, DataFile} \cap existing \cap raising = {})

cleanup_removes(kind, existing, raising) == kind \in existing /\ kind \notin raising

cleanup_log(existing, raising) ==
    (IF PdfFile \in existing \cap raising
        THEN {"Failed to clean up PDF file"} ELSE {})
    \cup (IF DataFile \in existing \cap raising
        THEN {"Failed to clean up JSON file"} ELSE {})
    \cup (IF ImagesDirectory \in existing \cap raising
        THEN {"Failed to clean up images directory"} ELSE {})

\* upload_pdf, "except ValueError as char_limit_error": the three clean-ups,
\* then HTTPException(400, "Document too large: ..."), which the outer
\* handler turns into a 500. raising: the removals that raise.
upload_pdf_char_limit(raising) ==
    /\ req.pc = "failed"
    /\ req.exc.type = "ValueError"
    /\ LET id == req.file_id
           existing == Artifacts(id)
       IN  /\ uploadDir' = IF cleanup_removes(PdfFile, existing, raising)
                           THEN uploadDir \ {[id |-> id, filename |-> req.filename]}
                           ELSE uploadDir
           /\ dataDir' = IF cleanup_removes(DataFile, existing, raising)
                         THEN [dataDir EXCEPT ![id] = NoFile]
                         ELSE dataDir
           /\ imagesDir' = IF cleanup_removes(ImagesDirectory, existing, raising)
                           THEN [imagesDir EXCEPT ![id] = NoDir]
                           ELSE imagesDir
           /\ log' = log \cup cleanup_log(existing, raising)
                         \cup {"Error uploading PDF"}
           /\ resp' = upload_error(id, "Document too large", req.exc)
    /\ req' = Idle
    /\ UNCHANGED issued

\* upload_pdf, "except Exception as processing_error": the degraded record.
upload_pdf_processing_failed ==
    /\ req.pc = "failed"
    /\ req.exc.type # "ValueError"
    /\ resp' = [NoResp EXCEPT !.op = "upload_pdf", !.id = req.file_id, !.code = 200,
                              !.status = "processing_failed",
                              !.detail = "PDF uploaded but processing failed",
                              !.error = req.exc]
    /\ log' = log \cup {"Error processing PDF"}
    /\ req' = Idle
    /\ UNCHANGED <<uploadDir, dataDir, imagesDir, issued>>


\* -------------------------------------------------- app.py: delete_content

\* delete_content removes the source files, then the JSON record, then the
\* image directory, inside one try block: the first removal that raises ends
\* the sequence.
delete_reaches(kind, existing, raising) ==
    CASE kind = PdfFile -> TRUE
      [] kind = DataFile -> PdfFile \notin existing \cap raising
      [] kind = ImagesDirectory ->
            /\ PdfFile \notin existing \cap raising
            /\ DataFile \notin existing \cap raising

delete_raises(kind, existing, raising) ==
    delete_reaches(kind, existing, raising) /\ kind \in existing \cap raising

\* Mutant: delete_content leaves the image directory.
delete_removes_keeps_images(kind, existing, raising) ==
    /\ delete_reaches(kind, existing, raising)
    /\ kind \in existing /\ kind \notin raising /\ kind # ImagesDirectory

\* Mutant: delete_content leaves the JSON record.
delete_removes_keeps_json(kind, existing, raising) ==
    /\ delete_reaches(kind, existing, raising)
    /\ kind \in existing /\ kind \notin raising /\ kind # DataFile

delete_removes(kind, existing, raising) ==
    delete_reaches(kind, existing, raising) /\ kind \in existing /\ kind \notin raising

\* Mutant: an empty deleted_items is returned as a success.
delete_response_empty_ok(content_id, removed, raised) ==
    IF raised # {}
    THEN [NoResp EXCEPT !.op = "delete_content", !.id = content_id, !.code = 500,
                        !.status = "error", !.detail = "Error deleting content"]
    ELSE [NoResp EXCEPT !.op = "delete_content", !.id = content_id, !.code = 200,
                        !.status = "deleted",
                        !.detail = "Content deleted successfully",
                        !.deleted_items = removed]

\* The response of delete_content: the 500 of "except Exception", the 404 of
\* an empty deleted_items, or the list of what was removed.
delete_response(content_id, removed, raised) ==
    IF raised # {}
    THEN [NoResp EXCEPT !.op = "delete_content", !.id = content_id, !.code = 500,
                        !.status = "error", !.detail = "Error deleting content"]
    ELSE IF removed = {}
    THEN [NoResp EXCEPT !.op = "delete_content", !.id = content_id, !.code = 404,
                        !.status = "error", !.detail = "Content not found"]
    ELSE [NoResp EXCEPT !.op = "delete_content", !.id = content_id, !.code = 200,
                        !.status = "deleted",
                        !.detail = "Content deleted successfully",
                        !.deleted_items = removed]

delete_log(raised) ==
    { "Error deleting content: " \o k : k \in raised }

\* delete_content(content_id). raising: the removals that raise when called.
delete_content(content_id, raising) ==
    /\ req.pc = "idle"
    /\ LET existing == Artifacts(content_id)
           removed == { k \in Kinds : delete_removes(k, existing, raising) }
           raised == { k \in Kinds : delete_raises(k, existing, raising) }
       IN  /\ uploadDir' = IF PdfFile \in removed
                           THEN uploadDir \ glob_uploads(content_id)
                           ELSE uploadDir
           /\ dataDir' = IF DataFile \in removed
                         THEN [dataDir EXCEPT ![content_id] = NoFile]
                         ELSE dataDir
           /\ imagesDir' = IF ImagesDirectory \in removed
                           THEN [imagesDir EXCEPT ![content_id] = NoDir]
                           ELSE imagesDir
           /\ resp' = delete_response(content_id, removed, raised)
           /\ log' = delete_log(raised)
    /\ UNCHANGED <<issued, req>>

\* ------------------------------------------------------------ URLs and text

\* A URL is the sequence of the pieces it is written with; a run of
\* characters of [0-9A-Za-z_-] is one piece.
WatchUrl == <<"https", "://", "www.youtube.com", "/watch?v=", "dQw4w9WgXcQ">>
ShortUrl == <<"https", "://", "youtu.be", "/", "dQw4w9WgXcQ">>
BareUrl == <<"www.youtube.com", "/embed/", "dQw4w9WgXcQ">>
PlaylistUrl == <<"https", "://", "www.youtube.com", "/playlist?list=", "PL1234567890">>
ShortIdUrl == <<"https", "://", "youtu.be", "/", "dQw4w9WgXc">>
OtherUrl == <<"https", "://", "example.com", "/", "dQw4w9WgXcQ">>
NoHostUrl == <<"https", "://">>
EmptyUrl == << >>
Urls == { WatchUrl, ShortUrl, BareUrl, PlaylistUrl, ShortIdUrl, OtherUrl,
          NoHostUrl, EmptyUrl }

\* needle in piece, for the host names the handlers look for
piece_contains(piece, needle) ==
    \/ piece = needle
    \/ piece = "www.youtube.com" /\ needle = "youtube.com"

\* needle in url
url_contains(url, needle) ==
    \E i \in 1..Len(url) : piece_contains(url[i], needle)

\* How many characters of [0-9A-Za-z_-] a piece starts with.
id_run(piece) ==
    CASE piece = "dQw4w9WgXcQ" -> 11
      [] piece = "dQw4w9WgXc" -> 10
      [] piece = "PL1234567890" -> 12
      [] OTHER -> 0

\* urlparse(url): the scheme is what stands before "://", the netloc what
\* follows it up to the next "/".
urlparse(url) ==
    IF Len(url) >= 2 /\ url[2] = "://"
    THEN [scheme |-> url[1], netloc |-> IF Len(url) >= 3 THEN url[3] ELSE ""]
    ELSE [scheme |-> "", netloc |-> ""]

\* YOUTUBE_REGEX.search(url): the positions of the host piece of a match.
YOUTUBE_REGEX(url) ==
    { i \in 1..Len(url) :
        /\ i + 2 <= Len(url)
        /\ \/ piece_contains(url[i], "youtu.be") /\ url[i + 1] = "/"
           \/ /\ piece_contains(url[i], "youtube.com")
              /\ url[i + 1] \in {"/watch?v=", "/embed/", "/v/"}
        /\ id_run(url[i + 2]) >= 11 }

\* A text is here the sequence of its characters.
Whitespace == {" ", "\n"}

\* str.split(): the maximal runs of characters that are not whitespace.
RECURSIVE split_from(_, _)
split_from(text, word) ==
    IF text = << >> THEN (IF word = << >> THEN << >> ELSE <<word>>)
    ELSE IF Head(text) \in Whitespace
    THEN (IF word = << >> THEN << >> ELSE <<word>>) \o split_from(Tail(text), << >>)
    ELSE split_from(Tail(text), Append(word, Head(text)))

split(text) == split_from(text, << >>)

\* " ".join(words)
RECURSIVE join(_)
join(words) ==
    IF words = << >> THEN << >>
    ELSE IF Len(words) = 1 THEN Head(words)
    ELSE Head(words) \o <<" ">> \o join(Tail(words))

\* Mutant: the transcript is persisted as extracted.
normalize_keeps_text(text) == text

\* " ".join(transcript_text.split())
normalize(text) == join(split(text))


\* ------------------------------------------------- app.py: the read handlers

\* The five read handlers have no "except HTTPException: raise": the
\* HTTPException they raise inside the try block is caught by their own
\* "except Exception as e", logged, and replaced by a 500 whose detail is the
\* handler's prefix followed by str(e).
ReadHandlers == { "get_content_info", "get_page_content", "get_content_summary",
                  "topic_extractor_content", "get_transcript_text" }

read_prefix(op) ==
    CASE op = "get_content_info" -> "Error retrieving content"
      [] op = "get_page_content" -> "Error retrieving page content"
      [] op = "get_content_summary" -> "Error retrieving content summary"
      [] op = "topic_extractor_content" -> "Error formatting content"
      [] op = "get_transcript_text" -> "Error retrieving transcript"

\* raise HTTPException(code, detail) inside the try block of a read handler.
read_http_exception(op, content_id, code, detail) ==
    [NoResp EXCEPT !.op = op, !.id = content_id, !.code = 500,
                   !.status = "error", !.detail = read_prefix(op),
                   !.cause = detail]

\* "except json.JSONDecodeError": the file does not hold a whole JSON document.
read_decode_error(op, content_id) ==
    [NoResp EXCEPT !.op = op, !.id = content_id, !.code = 500,
                   !.status = "error", !.detail = "Invalid data file format"]

read_success(op, content_id, data) ==
    [NoResp EXCEPT !.op = op, !.id = content_id, !.code = 200,
                   !.status = "success", !.data = data]

\* The start all read handlers share: json_file_path.exists(), then
\* json.load. after is the response of the rest of the handler, which works
\* on read_content_data(content_id).
read_content_data(content_id) == json_load(dataDir[content_id].data)

read_record(op, content_id, after) ==
    IF ~dataDir[content_id].exists
    THEN read_http_exception(op, content_id, 404, "Content not found")
    ELSE IF ~dataDir[content_id].complete
    THEN read_decode_error(op, content_id)
    ELSE after

get_content_info_response(content_id) ==
    LET content_data == read_content_data(content_id)
        after == read_success("get_content_info", content_id, content_data)
    IN  read_record("get_content_info", content_id, after)

\* The first page whose page_number is the requested one, if any.
find_page(pages, page_number) ==
    LET hits == { i \in 1..Len(pages) : pages[i].page_number = page_number }
    IN  IF hits = {} THEN 0 ELSE CHOOSE i \in hits : \A j \in hits : i <= j

get_page_content_response(content_id, page_number) ==
    LET content_data == read_content_data(content_id)
        after ==
            LET pages == get(content_data, "pages", << >>)
                i == find_page(pages, page_number)
            IN  IF i = 0
                THEN read_http_exception("get_page_content", content_id, 404,
                                         "Page not found")
                ELSE read_success("get_page_content", content_id, pages[i])
    IN  read_record("get_page_content", content_id, after)

RECURSIVE sum_of(_, _)
sum_of(pages, key) ==
    IF pages = << >> THEN 0
    ELSE get(Head(pages), key, 0) + sum_of(Tail(pages), key)

\* text[:100] + "..." if len(text) > 100 else text
text_preview(text) == IF len(text) > 100 THEN Text(100 + 3) ELSE text

get_content_summary_response(content_id) ==
    LET content_data == read_content_data(content_id)
        after ==
            LET pages == get(content_data, "pages", << >>)
            IN  read_success("get_content_summary", content_id,
                    [ content_id |-> get(content_data, "content_id", NoId),
                      total_pages |-> get(content_data, "total_pages", 0),
                      pdf_info |-> get(content_data, "pdf_info", << >>),
                      total_text_length |-> sum_of(pages, "text_length"),
                      total_images |-> sum_of(pages, "image_count"),
                      pages_summary |->
                          [i \in 1..Len(pages) |->
                              [ page_number |-> pages[i].page_number,
                                text_length |-> get(pages[i], "text_length", 0),
                                image_count |-> get(pages[i], "image_count", 0),
                                text_preview |->
                                    text_preview(get(pages[i], "text", Text(0))) ]] ])
    IN  read_record("get_content_summary", content_id, after)

topic_extractor_content_response(content_id) ==
    LET content_data == read_content_data(content_id)
        after ==
            LET pages == get(content_data, "pages", << >>)
            IN  read_success("topic_extractor_content", content_id,
                    [ total_pages |-> get(content_data, "total_pages", 0),
                      pages |-> [i \in 1..Len(pages) |->
                                   [ page_number |-> pages[i].page_number,
                                     content |-> get(pages[i], "text", Text(0)) ]] ])
    IN  read_record("topic_extractor_content", content_id, after)

get_transcript_text_response(content_id) ==
    LET content_data == read_content_data(content_id)
        after ==
            IF get(content_data, "content_type", "None") # "youtube"
            THEN read_http_exception("get_transcript_text", content_id, 400,
                                     "Content is not a YouTube video")
            ELSE IF content_data.transcript = << >>
            THEN read_http_exception("get_transcript_text", content_id, 404,
                                     "No transcript available for this content")
            ELSE read_success("get_transcript_text", content_id,
                    [ content_id |-> content_id,
                      url |-> content_data.url,
                      transcript |-> content_data.transcript,
                      text_length |-> Len(content_data.transcript) ])
    IN  read_record("get_transcript_text", content_id, after)

\* logger.error of "except Exception as e" in a read handler.
read_log(response) ==
    IF response.cause # "none" THEN {response.detail} ELSE {}

\* A read handler as a request: it answers and changes no file.
read(response) ==
    /\ req.pc = "idle"
    /\ resp' = response
    /\ log' = read_log(response)
    /\ UNCHANGED <<uploadDir, dataDir, imagesDir, issued, req>>

get_content_info(content_id) == read(get_content_info_response(content_id))
get_page_content(content_id, page_number) ==
    read(get_page_content_response(content_id, page_number))
get_content_summary(content_id) == read(get_content_summary_response(content_id))
topic_extractor_content(content_id) ==
    read(topic_extractor_content_response(content_id))
get_transcript_text(content_id) == read(get_transcript_text_response(content_id))

\* ------------------------------------------------ app.py: upload_content

ContentTypes == {"pdf-link", "youtube", "website"}

valid_url(url) == urlparse(url).scheme # "" /\ urlparse(url).netloc # ""

\* upload_content raises its HTTPException(400) unchanged ("except
\* HTTPException: raise"); it draws a uuid and writes no file.
upload_content(url, content_type) ==
    /\ req.pc = "idle"
    /\ IF content_type \notin ContentTypes
       THEN /\ resp' = [NoResp EXCEPT !.op = "upload_content", !.code = 400,
                                      !.status = "error",
                                      !.detail = "Invalid content type"]
            /\ UNCHANGED issued
       ELSE IF ~valid_url(url)
       THEN /\ resp' = [NoResp EXCEPT !.op = "upload_content", !.code = 400,
                                      !.status = "error",
                                      !.detail = "Invalid URL format"]
            /\ UNCHANGED issued
       ELSE /\ issued < MaxUploads
            /\ issued' = issued + 1
            /\ resp' = [NoResp EXCEPT !.op = "upload_content", !.id = issued + 1,
                                      !.code = 200, !.status = "received"]
    /\ log' = {}
    /\ UNCHANGED <<uploadDir, dataDir, imagesDir, req>>


\* ----------------------------- youtube_transcript.py, get_youtube_transcript

\* What ytt_api.fetch(v_id) does: it raises an exception with this message,
\* or ("none") returns these snippets.
FetchErrors == { "No transcripts were found", "Video unavailable",
                 "TranscriptsDisabled", "network error" }

\* Mutant: final_transcript starts as " " instead of "".
RECURSIVE final_transcript_from_space(_)
final_transcript_from_space(snippets) ==
    IF snippets = << >> THEN <<" ">>
    ELSE <<" ">> \o Head(snippets) \o final_transcript_from_space(Tail(snippets))

\* final_transcript += " " + snippet.text, over the snippets
RECURSIVE final_transcript(_)
final_transcript(snippets) ==
    IF snippets = << >> THEN << >>
    ELSE <<" ">> \o Head(snippets) \o final_transcript(Tail(snippets))

\* extract_youtube_transcript(url). When the regular expression finds no id,
\* "return final_transcript" reads a local variable that was never assigned:
\* UnboundLocalError.
extract_youtube_transcript(url, fetched) ==
    IF YOUTUBE_REGEX(url) = {}
    THEN [raised |-> "UnboundLocalError", text |-> << >>]
    ELSE IF fetched.raises # "none"
    THEN [raised |-> fetched.raises, text |-> << >>]
    ELSE [raised |-> "none", text |-> final_transcript(fetched.snippets)]

youtube_response(code, detail) ==
    [NoResp EXCEPT !.op = "get_youtube_transcript", !.code = code,
                   !.status = "error", !.detail = detail]

\* "except Exception as e" of get_youtube_transcript: the 404s it picks by
\* the text of the exception, else the 500.
youtube_error(raised) ==
    CASE raised = "No transcripts were found" ->
            youtube_response(404, "No transcript available for this video")
      [] raised = "Video unavailable" ->
            youtube_response(404, "Video not found or unavailable")
      [] raised = "TranscriptsDisabled" ->
            youtube_response(404, "Transcripts are disabled for this video")
      [] OTHER -> [youtube_response(500, "Error extracting transcript")
                      EXCEPT !.cause = raised]

\* transcript_text[:200] + "..." if len(transcript_text) > 200
transcript_preview(text) ==
    IF Len(text) > 200 THEN SubSeq(text, 1, 200) \o <<".", ".", ".">> ELSE text

content_data(content_id, url, transcript_text) ==
    [ content_id |-> content_id,
      content_type |-> "youtube",
      url |-> url,
      text_length |-> Len(transcript_text),
      text_preview |-> transcript_preview(transcript_text),
      status |-> "processed",
      transcript |-> transcript_text ]

\* get_youtube_transcript(url). fetched: what the transcript service does;
\* dump: how writing the JSON file ends ("open": open() raises, "dump":
\* json.dump raises after the file was created).
get_youtube_transcript(url, fetched, dump) ==
    /\ req.pc = "idle"
    /\ LET extracted == extract_youtube_transcript(url, fetched)
           transcript_text == normalize(extracted.text)
           content_id == issued + 1
       IN  IF url = EmptyUrl
           THEN /\ resp' = youtube_response(400, "URL is required")
                /\ log' = {}
                /\ UNCHANGED <<dataDir, issued>>
           ELSE IF ~url_contains(url, "youtube.com") /\ ~url_contains(url, "youtu.be")
           THEN /\ resp' = youtube_response(400, "Invalid YouTube URL")
                /\ log' = {}
                /\ UNCHANGED <<dataDir, issued>>
           ELSE IF extracted.raised # "none"
           THEN /\ resp' = youtube_error(extracted.raised)
                /\ log' = {"Error extracting YouTube transcript"}
                /\ UNCHANGED <<dataDir, issued>>
           ELSE IF extracted.text = << >>
           THEN /\ resp' = youtube_response(404, "No transcript available for this video")
                /\ log' = {}
                /\ UNCHANGED <<dataDir, issued>>
           ELSE /\ issued < MaxUploads
                /\ issued' = issued + 1
                /\ IF dump = "ok"
                   THEN /\ dataDir' = [dataDir EXCEPT ![content_id] =
                               [exists |-> TRUE, complete |-> TRUE,
                                data |-> json_encode(
                                    content_data(content_id, url, transcript_text))]]
                        /\ resp' = [NoResp EXCEPT
                               !.op = "get_youtube_transcript", !.id = content_id,
                               !.code = 200, !.status = "processed",
                               !.detail = "YouTube transcript extracted successfully",
                               !.data = [text_length |-> Len(transcript_text),
                                         text_preview |-> transcript_preview(transcript_text)]]
                        /\ log' = {}
                   ELSE /\ dataDir' = IF dump = "open" THEN dataDir
                                      ELSE [dataDir EXCEPT ![content_id] =
                                              [exists |-> TRUE, complete |-> FALSE,
                                               data |-> NoData]]
                        /\ resp' = [youtube_error("cannot write data file")
                                       EXCEPT !.id = content_id]
                        /\ log' = {"Error extracting YouTube transcript"}
    /\ UNCHANGED <<uploadDir, imagesDir, req>>


\* ------------------------------------------------------- the specification

\* The upload_pdf requests. upload_pdf looks at the size only of a file whose
\* name it accepted, so a request rejected for its name is listed once.
UploadRequests ==
    { u \in [filename : FileNames, file_size : FileSizes] :
        ~allowed_filename(u.filename) => u.file_size = MaxUploadBytes }

\* The removals that can raise: those of artifacts that exist. delete_content
\* stops at the first removal that raises, so one raising removal is chosen.
DeleteFaults(content_id) == {{}} \cup { {k} : k \in Artifacts(content_id) }
CleanupFaults(content_id) == SUBSET Artifacts(content_id)

DumpOutcomes == {"ok", "ValueError", "Exception"}

\* The requests and steps with their inputs.
upload_pdf_request ==
    \E u \in UploadRequests : upload_pdf_begin(u.filename, u.file_size)

upload_pdf_rollback ==
    /\ req.pc = "failed"
    /\ \E raising \in CleanupFaults(req.file_id) : upload_pdf_char_limit(raising)

delete_content_request ==
    \E content_id \in Ids : \E raising \in DeleteFaults(content_id) :
        delete_content(content_id, raising)

\* The page numbers a client asks for: 0, the pages, and one past the bound.
PageNumbers == 0..(MaxPages + 1)

get_content_info_request == \E content_id \in Ids : get_content_info(content_id)
get_page_content_request ==
    \E content_id \in Ids, page_number \in PageNumbers :
        get_page_content(content_id, page_number)
get_content_summary_request == \E content_id \in Ids : get_content_summary(content_id)
topic_extractor_content_request ==
    \E content_id \in Ids : topic_extractor_content(content_id)
get_transcript_text_request == \E content_id \in Ids : get_transcript_text(content_id)

Next ==
    \/ upload_pdf_request
    \/ \E readable \in BOOLEAN, num_pages \in PageCounts :
          PDFTextExtractor_init(readable, num_pages)
    \/ \E page \in PageKinds : extract_content_all_pages_step(page)
    \/ size_guard
    \/ \E ok \in BOOLEAN : json_open(ok)
    \/ \E outcome \in DumpOutcomes : json_dump(outcome)
    \/ upload_pdf_processed
    \/ upload_pdf_rollback
    \/ upload_pdf_processing_failed
    \/ delete_content_request

Spec == Init /\ [][Next]_vars

\* The handlers that work on the store in a single step: upload_content,
\* get_youtube_transcript, the read handlers and delete_content.
\* The upload_content requests: every URL with one content type, and every
\* content type (and one that is none) with one URL.
UploadContentRequests ==
    [url : Urls, content_type : {"youtube"}]
    \cup [url : {WatchUrl}, content_type : ContentTypes \cup {"video"}]
    \cup [url : {EmptyUrl}, content_type : {"video"}]

\* The texts of the snippets of a fetched transcript.
SnippetTexts == { << >>, <<" ">>, <<"a">>, <<"a", " ", " ", "a">>,
                  <<"\n", "a", " ">> }
Transcripts == UNION { [1..n -> SnippetTexts] : n \in 0..MaxSnippets }
Fetched == [raises : {"none"}, snippets : Transcripts]
           \cup [raises : FetchErrors, snippets : {<< >>}]
WriteOutcomes == {"ok", "open", "dump"}

upload_content_request ==
    \E u \in UploadContentRequests : upload_content(u.url, u.content_type)

\* The get_youtube_transcript requests: every URL with a one-word transcript,
\* and for one URL every result of the transcript service and every outcome
\* of the write.
OneWord == [raises |-> "none", snippets |-> << <<"a">> >>]
YoutubeRequests ==
    [url : Urls, fetched : {OneWord}, dump : {"ok"}]
    \cup [url : {WatchUrl}, fetched : Fetched, dump : {"ok"}]
    \cup [url : {WatchUrl}, fetched : {OneWord}, dump : WriteOutcomes]

get_youtube_transcript_request ==
    \E y \in YoutubeRequests : get_youtube_transcript(y.url, y.fetched, y.dump)

\* The two upload handlers (and delete_content) together.
NextUploads == Next \/ upload_content_request

SpecUploads == Init /\ [][NextUploads]_vars

NextStore ==
    \/ upload_content_request
    \/ get_youtube_transcript_request
    \/ get_content_info_request
    \/ get_page_content_request
    \/ get_content_summary_request
    \/ topic_extractor_content_request
    \/ get_transcript_text_request
    \/ delete_content_request

SpecStore == Init /\ [][NextStore]_vars


\* process_pdf_file on a document of one page: the page is drawn at the
\* start, one step extracts it as extract_content_all_pages does, the next
\* builds and writes the record. The images of the page fail at every step of
\* the loop body of extract_images_from_page. The document is the first one
\* uploaded.
ImageInputs == { Image("Im0.png", 76, TRUE, fault) : fault \in ImageFaults }
               \cup { Image("Im1.png", 75, FALSE, "none"),
                      Image("Im2.png", 0, FALSE, "none") }
ImageLists == UNION { [1..n -> ImageInputs] : n \in 0..MaxImages }
ImagePages == { [text |-> Text(1), imgs |-> imgs, raises |-> "none"] :
                  imgs \in ImageLists }

InitImages ==
    /\ uploadDir = {[id |-> 1, filename |-> [stem |-> "a", ext |-> ".pdf"]]}
    /\ dataDir = [i \in Ids |-> NoFile]
    /\ imagesDir = [i \in Ids |-> NoDir]
    /\ issued = 1
    /\ resp = NoResp
    /\ log = {}
    /\ \E page \in ImagePages :
          req = [pc |-> "extract", file_id |-> 1, page |-> page, page_num |-> 0]

\* The body of the loop of extract_content_all_pages for the page: content is
\* what it appends to all_content, files what was written to output_dir.
extract_page ==
    /\ req.pc = "extract"
    /\ LET r == extract_content_from_page(req.page, req.page_num)
       IN  /\ resp' = [ op |-> "extract_content_from_page",
                         raised |-> r.raised,
                         content |-> walk_append(<< >>, req.page_num, r)[1],
                         files |-> r.files ]
           /\ imagesDir' = IF r.mkdir
                           THEN [imagesDir EXCEPT ![req.file_id] =
                                   [exists |-> TRUE, files |-> r.files]]
                           ELSE imagesDir
    /\ req' = [req EXCEPT !.pc = "extracted"]
    /\ UNCHANGED <<uploadDir, dataDir, issued, log>>

\* The rest of process_pdf_file: the character limit (which one page of this
\* size passes), the record, and json.dump.
store_page ==
    /\ req.pc = "extracted"
    /\ ~exceeds_limit(total_characters(<<resp.content>>))
    /\ dataDir' = [dataDir EXCEPT ![req.file_id] =
                      [exists |-> TRUE, complete |-> TRUE,
                       data |-> json_encode(
                           processed_data(req.file_id, 1, <<resp.content>>))]]
    /\ req' = [req EXCEPT !.pc = "stored"]
    /\ UNCHANGED <<uploadDir, imagesDir, issued, resp, log>>

NextImages == extract_page \/ store_page

SpecImages == InitImages /\ [][NextImages]_vars


\* ------------------------------------------------ app.py: get_pdf_file

\* UPLOAD_DIR.glob(f"{content_id}_*.pdf"). Whether the pattern matches letters
\* of the other case is the platform's choice (it does not on POSIX).
glob_pdf(content_id, case_sensitive) ==
    { f \in uploadDir :
        /\ f.id = content_id
        /\ IF case_sensitive THEN f.filename.ext = ".pdf"
           ELSE lower(f.filename.ext) = ".pdf" }

\* get_pdf_file has only "except Exception": the HTTPException(404) it raises
\* inside the try block comes out as a 500. served: the FileResponse.
get_pdf_file_response(content_id, case_sensitive) ==
    LET pdf_files == glob_pdf(content_id, case_sensitive)
    IN  IF pdf_files = {}
        THEN [NoResp EXCEPT !.op = "get_pdf_file", !.id = content_id, !.code = 500,
                            !.status = "error", !.detail = "Error serving PDF",
                            !.cause = "PDF file not found"]
        ELSE [NoResp EXCEPT !.op = "get_pdf_file", !.id = content_id, !.code = 200,
                            !.status = "success",
                            !.data = [served |-> CHOOSE f \in pdf_files : TRUE]]

get_pdf_file(content_id, case_sensitive) ==
    /\ req.pc = "idle"
    /\ resp' = get_pdf_file_response(content_id, case_sensitive)
    /\ log' = IF resp'.code = 500 THEN {"Error serving PDF"} ELSE {}
    /\ UNCHANGED <<uploadDir, dataDir, imagesDir, issued, req>>

\* ------------------------------------------ utils.py: topic_extractor_content

\* A text with layout: chars characters, padding of which format_text takes
\* away (repeated spaces, spaces at the ends of lines, empty lines at the ends).
PaddedText(chars, padding) == [chars |-> chars, padding |-> padding]

\* utils.format_text: the falsy text as it is, else the text cleaned up.
format_text(text) ==
    IF len(text) = 0 THEN text
    ELSE IF get(text, "padding", 0) = 0 THEN text
    ELSE PaddedText(len(text) - text.padding, 0)

\* utils.topic_extractor_content(json_data_path) on the record of a
\* content_id: json_data['total_pages'] and json_data['pages'] raise KeyError
\* on a record without them, open() raises on a missing file.
utils_topic_extractor_content_result(content_id) ==
    IF ~dataDir[content_id].exists
    THEN [raised |-> "FileNotFoundError"]
    ELSE IF ~dataDir[content_id].complete
    THEN [raised |-> "JSONDecodeError"]
    ELSE LET json_data == read_content_data(content_id)
         IN  IF {"total_pages", "pages"} \subseteq DOMAIN json_data
             THEN [ raised |-> "none",
                    total_pages |-> json_data.total_pages,
                    pages |-> [i \in 1..Len(json_data.pages) |->
                                 [ page_number |-> json_data.pages[i].page_number,
                                   text |-> format_text(json_data.pages[i].text) ]] ]
             ELSE [raised |-> "KeyError"]

utils_topic_extractor_content(content_id) ==
    /\ req.pc = "idle"
    /\ resp' = [NoResp EXCEPT !.op = "utils.topic_extractor_content",
                              !.id = content_id,
                              !.data = utils_topic_extractor_content_result(content_id)]
    /\ log' = {}
    /\ UNCHANGED <<uploadDir, dataDir, imagesDir, issued, req>>

\* ------------------------------- delete_content with any string as content_id

\* What a caller can put in the path for content_id: an id as it was issued,
\* "*", or an id followed by "_" and the first piece of a file name.
IdString(id) == [kind |-> "id", id |-> id, piece |-> ""]
StarString == [kind |-> "*", id |-> NoId, piece |-> ""]
ExtendedString(id, piece) == [kind |-> "extended", id |-> id, piece |-> piece]

\* The pieces of a file name's stem between its "_".
stem_pieces(stem) == IF stem = "a_b" THEN <<"a", "b">> ELSE <<stem>>

\* UPLOAD_DIR.glob(f"{content_id}_*") for such a string: the stored names are
\* "<id>_<filename>".
glob_any(content_id) ==
    CASE content_id.kind = "id" -> glob_uploads(content_id.id)
      [] content_id.kind = "*" -> uploadDir
      [] content_id.kind = "extended" ->
            { f \in uploadDir :
                /\ f.id = content_id.id
                /\ Len(stem_pieces(f.filename.stem)) > 1
                /\ stem_pieces(f.filename.stem)[1] = content_id.piece }

\* (DATA_DIR / f"{content_id}.json").exists() and (IMAGES_DIR /
\* content_id).exists(): the names are compared as they are.
artifacts_any(content_id) ==
    (IF glob_any(content_id) # {} THEN {PdfFile} ELSE {})
    \cup (IF content_id.kind = "id" THEN Artifacts(content_id.id) \ {PdfFile} ELSE {})

\* delete_content(content_id) for such a string. raising: the removals that
\* raise (the unlink of each matched file being one removal).
delete_content_any(content_id, raising) ==
    /\ req.pc = "idle"
    /\ LET existing == artifacts_any(content_id)
           removed == { k \in Kinds : delete_removes(k, existing, raising) }
           raised == { k \in Kinds : delete_raises(k, existing, raising) }
       IN  /\ uploadDir' = IF PdfFile \in removed
                           THEN uploadDir \ glob_any(content_id)
                           ELSE uploadDir
           /\ dataDir' = IF DataFile \in removed
                         THEN [dataDir EXCEPT ![content_id.id] = NoFile]
                         ELSE dataDir
           /\ imagesDir' = IF ImagesDirectory \in removed
                           THEN [imagesDir EXCEPT ![content_id.id] = NoDir]
                           ELSE imagesDir
           /\ resp' = [delete_response(content_id.id, removed, raised)
                          EXCEPT !.data = [content_id |-> content_id]]
           /\ log' = delete_log(raised)
    /\ UNCHANGED <<issued, req>>

\* ---------------------------------------------- the store and its readers

\* The content of a store after uploads have completed, and the handlers that
\* read it or delete from it. The pages of a stored document: those of
\* PageKinds and one with layout padding.
ViewPages == PageKinds \cup { [text |-> PaddedText(5, 2), imgs |-> << >>,
                              raises |-> "none"] }
ViewFileNames == { [stem |-> "a", ext |-> ".pdf"], [stem |-> "a", ext |-> ".PDF"],
                   [stem |-> "a_b", ext |-> ".pdf"] }

\* extract_content_all_pages over the pages of a document, from page_num on.
RECURSIVE extract_content_all_pages(_, _, _)
extract_content_all_pages(pages, page_num, all_content) ==
    IF page_num >= Len(pages) THEN all_content
    ELSE extract_content_all_pages(pages, page_num + 1,
            walk_append(all_content, page_num,
                        extract_content_from_page(pages[page_num + 1], page_num)))

\* The image directory extract_content_all_pages leaves behind.
written_images(pages) ==
    LET r(k) == extract_content_from_page(pages[k], k - 1)
    IN  [ exists |-> \E k \in 1..Len(pages) : r(k).mkdir,
          files |-> UNION { r(k).files : k \in 1..Len(pages) } ]

\* The documents process_pdf_file accepts, up to MaxPages pages.
Documents ==
    { pages \in UNION { [1..n -> ViewPages] : n \in 0..MaxPages } :
        ~exceeds_limit(total_characters(extract_content_all_pages(pages, 0, << >>))) }

\* The record process_pdf_file writes for a document.
stored_record(content_id, pages) ==
    [ exists |-> TRUE, complete |-> TRUE,
      data |-> json_encode(processed_data(content_id, Len(pages),
                              extract_content_all_pages(pages, 0, << >>))) ]

\* The record get_youtube_transcript writes.
stored_transcript(content_id) ==
    [ exists |-> TRUE, complete |-> TRUE,
      data |-> json_encode(content_data(content_id, WatchUrl, normalize(<<"a">>))) ]

\* The first id holds any document under any accepted file name, or a
\* transcript, or nothing; every further id holds a one-page document or
\* nothing.
InitViews ==
    /\ issued = MaxUploads
    /\ req = Idle
    /\ resp = NoResp
    /\ log = {}
    /\ \E held \in SUBSET (Ids \ {1}) :
       \/ \E pages \in Documents, filename \in ViewFileNames :
            /\ uploadDir = {[id |-> 1, filename |-> filename]}
                           \cup {[id |-> i, filename |-> [stem |-> "a", ext |-> ".pdf"]] :
                                   i \in held}
            /\ dataDir = [i \in Ids |->
                            IF i = 1 THEN stored_record(1, pages)
                            ELSE IF i \in held THEN stored_record(i, <<[text |-> Text(1),
                                        imgs |-> <<Img0>>, raises |-> "none"]>>)
                            ELSE NoFile]
            /\ imagesDir = [i \in Ids |->
                              IF i = 1 THEN written_images(pages)
                              ELSE IF i \in held THEN written_images(<<[text |-> Text(1),
                                        imgs |-> <<Img0>>, raises |-> "none"]>>)
                              ELSE NoDir]
       \/ /\ held = {}
          /\ uploadDir = {}
          /\ \E transcript \in BOOLEAN :
               dataDir = [i \in Ids |-> IF i = 1 /\ transcript
                                        THEN stored_transcript(1) ELSE NoFile]
          /\ imagesDir = [i \in Ids |-> NoDir]

\* What the callers of the store ask for.
ContentIdStrings ==
    { IdString(i) : i \in Ids } \cup {StarString}
    \cup { ExtendedString(i, "a") : i \in Ids }
DeleteAnyFaults(content_id) == SUBSET artifacts_any(content_id)

get_pdf_file_request ==
    \E content_id \in Ids, case_sensitive \in BOOLEAN :
        get_pdf_file(content_id, case_sensitive)
utils_topic_extractor_content_request ==
    \E content_id \in Ids : utils_topic_extractor_content(content_id)
delete_content_any_request ==
    \E content_id \in ContentIdStrings : \E raising \in DeleteAnyFaults(content_id) :
        delete_content_any(content_id, raising)

NextViews ==
    \/ get_content_info_request
    \/ get_page_content_request
    \/ get_content_summary_request
    \/ topic_extractor_content_request
    \/ get_transcript_text_request
    \/ get_pdf_file_request
    \/ utils_topic_extractor_content_request
    \/ delete_content_any_request

SpecViews == InitViews /\ [][NextViews]_vars


\* ------------------------------------------- concurrent upload_pdf requests

\* Several upload_pdf requests in progress at once, each with the content id
\* uuid4 gave it, their steps interleaved in every order. The directories are
\* shared. A request and its steps are those of upload_pdf above, written as
\* a function of the request, the directories and the step's input, so that
\* the same steps can also be taken by the request alone in directories of
\* its own.

\* The paths upload_pdf and process_pdf_file build from the content id:
\* UPLOAD_DIR / f"{file_id}_{filename}", data_dir / f"{content_id}.json" and
\* image_dir / content_id, as the keys of the three directories.
upload_file_path(file_id, filename) == [id |-> file_id, filename |-> filename]

\* Mutant: every request writes the same JSON file.
json_file_path_shared(content_id) == 1

json_file_path(content_id) == content_id
image_dir_path(content_id) == content_id

Ingestions == 1..MaxIngestions

Dirs(up, data, images) == [uploadDir |-> up, dataDir |-> data, imagesDir |-> images]
EmptyDirs == Dirs({}, [i \in Ingestions |-> NoFile], [i \in Ingestions |-> NoDir])

\* Artifacts(content_id) in given directories.
artifacts_in(d, content_id) ==
    (IF \E f \in d.uploadDir : f.id = content_id THEN {PdfFile} ELSE {})
    \cup (IF d.dataDir[json_file_path(content_id)].exists THEN {DataFile} ELSE {})
    \cup (IF d.imagesDir[image_dir_path(content_id)].exists
          THEN {ImagesDirectory} ELSE {})

\* The pages of the documents uploaded concurrently, and the input of one
\* step: the fields a step does not read are left at their defaults. A
\* document is unreadable or has two pages, the fewest with which every
\* step and both results of the size guard occur.
ConcurrentPages ==
    { [text |-> Text(CharLimit), imgs |-> << >>,    raises |-> "none"],
      [text |-> Text(1),         imgs |-> <<Img0>>, raises |-> "none"] }
NoInput == [readable |-> TRUE, num_pages |-> 0,
            page |-> [text |-> Text(0), imgs |-> << >>, raises |-> "none"],
            ok |-> TRUE, outcome |-> "ok", raising |-> {}]

step_inputs(r, d) ==
    CASE r.pc = "open" ->
            { [NoInput EXCEPT !.num_pages = 2], [NoInput EXCEPT !.readable = FALSE] }
      [] r.pc = "walk" /\ r.page_num < r.num_pages ->
            { [NoInput EXCEPT !.page = page] : page \in ConcurrentPages }
      [] r.pc = "persist" -> { [NoInput EXCEPT !.ok = ok] : ok \in BOOLEAN }
      [] r.pc = "dump" ->
            { [NoInput EXCEPT !.outcome = outcome] :
                outcome \in {"ok", "ValueError", "Exception"} }
      [] r.pc = "failed" /\ r.exc.type = "ValueError" ->
            { [NoInput EXCEPT !.raising = raising] :
                raising \in SUBSET artifacts_in(d, r.file_id) }
      [] OTHER -> {NoInput}

Outcome(r, d, response, lg) == [r |-> r, d |-> d, resp |-> response, log |-> lg]

\* One step of an upload_pdf request r in directories d with input x. content_id
\* is what uuid4 returns to it. "done": upload_pdf has returned.
ingestion_step(r, d, content_id, x, response, lg) ==
    CASE r.pc = "idle" ->
            \* file_id = str(uuid.uuid4()); the file is saved
            Outcome([Idle EXCEPT !.pc = "open", !.file_id = content_id,
                                 !.filename = [stem |-> "a", ext |-> ".pdf"]],
                    [d EXCEPT !.uploadDir = @ \cup
                        {upload_file_path(content_id, [stem |-> "a", ext |-> ".pdf"])}],
                    NoResp, {})
      [] r.pc = "open" ->
            \* PDFTextExtractor(str(file_path)), get_pdf_info()
            IF x.readable
            THEN Outcome([r EXCEPT !.pc = "walk", !.num_pages = x.num_pages],
                         d, response, lg)
            ELSE Outcome([r EXCEPT !.pc = "failed",
                             !.exc = [type |-> "Exception",
                                      msg |-> "Error reading PDF file", n |-> 0]],
                         d, response, lg \cup {"Error processing PDF"})
      [] r.pc = "walk" /\ r.page_num < r.num_pages ->
            \* one iteration of extract_content_all_pages
            LET e == extract_content_from_page(x.page, r.page_num)
                dir == d.imagesDir[image_dir_path(r.file_id)]
            IN  Outcome([r EXCEPT !.all_content = walk_append(@, r.page_num, e),
                                  !.page_num = r.page_num + 1],
                        IF e.mkdir
                        THEN [d EXCEPT !.imagesDir[image_dir_path(r.file_id)] =
                                [exists |-> TRUE, files |-> dir.files \cup e.files]]
                        ELSE d,
                        response, lg)
      [] r.pc = "walk" ->
            \* the character limit
            LET total == total_characters(r.all_content)
            IN  IF exceeds_limit(total)
                THEN Outcome([r EXCEPT !.pc = "failed",
                                 !.exc = [type |-> "ValueError",
                                          msg |-> "Document exceeds 100,000 character limit",
                                          n |-> total]],
                             d, response, lg \cup {"Error processing PDF"})
                ELSE Outcome([r EXCEPT !.pc = "persist",
                                 !.processed_data =
                                     processed_data(r.file_id, r.num_pages,
                                                    r.all_content)],
                             d, response, lg)
      [] r.pc = "persist" ->
            \* open(json_file_path, 'w')
            IF x.ok
            THEN Outcome([r EXCEPT !.pc = "dump"],
                         [d EXCEPT !.dataDir[json_file_path(r.file_id)] =
                             [exists |-> TRUE, complete |-> FALSE, data |-> NoData]],
                         response, lg)
            ELSE Outcome([r EXCEPT !.pc = "failed",
                             !.exc = [type |-> "Exception",
                                      msg |-> "cannot open data file", n |-> 0]],
                         d, response, lg \cup {"Error processing PDF"})
      [] r.pc = "dump" ->
            \* json.dump(processed_data, f)
            IF x.outcome = "ok"
            THEN Outcome([r EXCEPT !.pc = "returned"],
                         [d EXCEPT !.dataDir[json_file_path(r.file_id)] =
                             [exists |-> TRUE, complete |-> TRUE,
                              data |-> json_encode(r.processed_data)]],
                         response, lg)
            ELSE Outcome([r EXCEPT !.pc = "failed",
                             !.exc = [type |-> x.outcome,
                                      msg |-> "cannot write data file", n |-> 0]],
                         d, response, lg \cup {"Error processing PDF"})
      [] r.pc = "returned" ->
            Outcome([r EXCEPT !.pc = "done"], d,
                    [NoResp EXCEPT !.op = "upload_pdf", !.id = r.file_id,
                                   !.code = 200, !.status = "processed",
                                   !.detail = "PDF uploaded and processed successfully"],
                    lg)
      [] r.pc = "failed" /\ r.exc.type = "ValueError" ->
            \* except ValueError: the three clean-ups
            LET existing == artifacts_in(d, r.file_id)
            IN  Outcome([r EXCEPT !.pc = "done"],
                        Dirs(IF cleanup_removes(PdfFile, existing, x.raising)
                             THEN d.uploadDir \ {upload_file_path(r.file_id, r.filename)}
                             ELSE d.uploadDir,
                             IF cleanup_removes(DataFile, existing, x.raising)
                             THEN [d.dataDir EXCEPT ![json_file_path(r.file_id)] = NoFile]
                             ELSE d.dataDir,
                             IF cleanup_removes(ImagesDirectory, existing, x.raising)
                             THEN [d.imagesDir EXCEPT ![image_dir_path(r.file_id)] = NoDir]
                             ELSE d.imagesDir),
                        upload_error(r.file_id, "Document too large", r.exc),
                        lg \cup cleanup_log(existing, x.raising)
                           \cup {"Error uploading PDF"})
      [] r.pc = "failed" ->
            \* except Exception as processing_error
            Outcome([r EXCEPT !.pc = "done"], d,
                    [NoResp EXCEPT !.op = "upload_pdf", !.id = r.file_id,
                                   !.code = 200, !.status = "processing_failed",
                                   !.detail = "PDF uploaded but processing failed",
                                   !.error = r.exc],
                    lg \cup {"Error processing PDF"})

\* req[p].run: request p among the others, in the shared directories;
\* req[p].alone: the same request taking the same steps with the same inputs
\* in directories no other request uses.
Alone(r, d, response, lg) == [r |-> r, d |-> d, resp |-> response, log |-> lg]

InitConcurrent ==
    /\ uploadDir = EmptyDirs.uploadDir
    /\ dataDir = EmptyDirs.dataDir
    /\ imagesDir = EmptyDirs.imagesDir
    /\ issued = 0
    /\ req = [p \in Ingestions |->
                [run |-> Idle, alone |-> Alone(Idle, EmptyDirs, NoResp, {})]]
    /\ resp = [p \in Ingestions |-> NoResp]
    /\ log = [p \in Ingestions |-> {}]

\* Request p takes its next step.
ingestion(p) ==
    /\ req[p].run.pc # "done"
    /\ \E x \in step_inputs(req[p].run, Dirs(uploadDir, dataDir, imagesDir)) :
         LET among == ingestion_step(req[p].run, Dirs(uploadDir, dataDir, imagesDir),
                                     p, x, resp[p], log[p])
             a == req[p].alone
             alone == ingestion_step(a.r, a.d, p, x, a.resp, a.log)
         IN  /\ uploadDir' = among.d.uploadDir
             /\ dataDir' = among.d.dataDir
             /\ imagesDir' = among.d.imagesDir
             /\ req' = [req EXCEPT ![p] = [run |-> among.r, alone |-> alone]]
             /\ resp' = [resp EXCEPT ![p] = among.resp]
             /\ log' = [log EXCEPT ![p] = among.log]
    /\ issued' = IF req[p].run.pc = "idle" THEN issued + 1 ELSE issued

NextConcurrent == \E p \in Ingestions : ingestion(p)

SpecConcurrent == InitConcurrent /\ [][NextConcurrent]_vars


\* ------------------------------------------------------------ the claims

\* process_pdf_file ended with the ValueError of the character limit.
SizeLimitExceeded(exc) ==
    exc.type = "ValueError" /\ exc.msg = "Document exceeds 100,000 character limit"

\* upload_pdf has returned (no request is in progress) and this is its outcome.
UploadReturned == req.pc = "idle" /\ resp.op = "upload_pdf" /\ resp.id \in Ids

\* A removal (unlink, rmtree) raised during the last request.
CleanupErrors == { "Failed to clean up PDF file", "Failed to clean up JSON file",
                   "Failed to clean up images directory" }
RemovalRaised(lg) ==
    lg \cap (CleanupErrors \cup { "Error deleting content: " \o k : k \in Kinds }) # {}

\* C1 (as claimed): whenever process_pdf_file ended with the size limit
\* exceeded, after upload_pdf returns none of the three artifacts of that
\* content_id exists.
C1_RollbackComplete ==
    (UploadReturned /\ SizeLimitExceeded(resp.error)) => Artifacts(resp.id) = {}

\* C1 (amended): after a size-limit rejection no JSON record exists, and the
\* source file and the image directory exist only if their removal raised an
\* error, which the handler logged.
C1_RollbackUnlessRemovalRaises ==
    (UploadReturned /\ SizeLimitExceeded(resp.error)) =>
        /\ DataFile \notin Artifacts(resp.id)
        /\ PdfFile \in Artifacts(resp.id) => "Failed to clean up PDF file" \in log
        /\ ImagesDirectory \in Artifacts(resp.id)
              => "Failed to clean up images directory" \in log

\* C1 witness: a document of 100,001 characters was rejected and rolled back.
C1_Witness ==
    /\ UploadReturned /\ SizeLimitExceeded(resp.error)
    /\ resp.error.n = CharLimit + 1
    /\ Artifacts(resp.id) = {}

Lifetimes ==
    \A id \in Ids :
        /\ DataFile \in Artifacts(id) => PdfFile \in Artifacts(id)
        /\ ImagesDirectory \in Artifacts(id) => PdfFile \in Artifacts(id)

C3_NoPartialRecord ==
    req.pc = "idle" => \A id \in Ids : dataDir[id].exists => dataDir[id].complete

\* C4: for every failure of process_pdf_file other than the size limit,
\* upload_pdf keeps the source file and returns a degraded record with status
\* "processing_failed" (HTTP 200) and the error text; the source file is
\* rolled back only when the size limit was exceeded. (That no JSON record
\* is left behind is the subject of C3_NoPartialRecord.)
C4_FailureKeepsSource ==
    (UploadReturned /\ resp.error # NoExc /\ ~SizeLimitExceeded(resp.error)) =>
        /\ PdfFile \in Artifacts(resp.id)
        /\ resp.code = 200 /\ resp.status = "processing_failed"


RECURSIVE SumTextLength(_)
SumTextLength(pages) ==
    IF pages = << >> THEN 0
    ELSE Head(pages).text_length + SumTextLength(Tail(pages))

\* process_pdf_file has passed the size guard.
PastGuard == req.pc \in {"persist", "dump", "returned"}

\* C5: process_pdf_file fails with the size-limit error exactly when the sum
\* of len(text) over the extracted pages is greater than 100,000, and the
\* error carries the measured total; every persisted record has at most
\* 100,000 characters.
C5_SizeGuardThreshold ==
    /\ SizeLimitExceeded(req.exc) =>
          /\ req.exc.n = total_characters(req.all_content)
          /\ req.exc.n > CharLimit
    /\ (req.pc = "failed" /\ total_characters(req.all_content) > CharLimit)
          => SizeLimitExceeded(req.exc)
    /\ PastGuard =>
          /\ total_characters(req.all_content) <= CharLimit
          /\ req.exc = NoExc
    /\ \A id \in Ids :
          dataDir[id].complete => SumTextLength(dataDir[id].data.pages) <= CharLimit
    /\ (UploadReturned /\ SizeLimitExceeded(resp.error)) =>
          /\ resp.error.n > CharLimit
          /\ resp.cause = "Document too large"

\* C5 witness: a document of exactly 100,000 characters is persisted.
C5_Witness ==
    \E id \in Ids :
        /\ dataDir[id].complete
        /\ SumTextLength(dataDir[id].data.pages) = CharLimit

\* A record has page_count pages, total_pages = page_count, and its i-th
\* page is numbered i.
Numbered(d, page_count) ==
    /\ Len(d.pages) = page_count
    /\ d.total_pages = page_count
    /\ \A i \in 1..Len(d.pages) : d.pages[i].page_number = i

\* C6: the record process_pdf_file assembles, returns and persists has
\* exactly page_count pages, total_pages = page_count, and pages numbered
\* 1..page_count, whichever pages failed during extraction.
C6_PageNumbering ==
    /\ PastGuard => Numbered(req.processed_data, req.num_pages)
    /\ \A id \in Ids :
          dataDir[id].complete =>
              Numbered(dataDir[id].data, dataDir[id].data.pdf_info.num_pages)

\* C6 witness: process_pdf_file returned the record of a document of at least
\* two pages of which one failed (empty) and one did not.
C6_Witness ==
    /\ req.pc = "returned"
    /\ req.num_pages >= 2
    /\ \E i, j \in 1..Len(req.processed_data.pages) :
          /\ req.processed_data.pages[i].text_length = 0
          /\ req.processed_data.pages[j].text_length > 0

\* C7: one iteration of extract_content_all_pages keeps the records collected
\* so far, stays in the loop, and adds at position page_num an empty record
\* if extracting the page raises, and otherwise the page's own text and
\* images, whatever happened to the other pages.
C7_DegradeDontAbort ==
    [][ \A page \in PageKinds :
          extract_content_all_pages_step(page) =>
            /\ req'.pc = "walk"
            /\ Len(req'.all_content) = req'.page_num
            /\ Len(req'.all_content) = Len(req.all_content) + 1
            /\ SubSeq(req'.all_content, 1, Len(req.all_content)) = req.all_content
            /\ LET rec == req'.all_content[Len(req'.all_content)]
               IN  IF page.raises # "none"
                   THEN rec = [page_number |-> req.page_num, text |-> Text(0),
                               images |-> << >>]
                   ELSE /\ rec.page_number = req.page_num
                        /\ rec.text = page.text
                        /\ Len(rec.images) = Len(page.imgs) ]_vars

\* C7 witness: the first page raised and came out empty, the second page
\* came out with its text and image.
C7_Witness ==
    /\ req.pc = "walk"
    /\ Len(req.all_content) = 2
    /\ req.all_content[1] = empty_content(0)
    /\ req.all_content[2].text = Text(1)
    /\ Len(req.all_content[2].images) = 1

\* A second delete of content_id right after a successful one, or a delete of
\* a content_id that was never issued.
NothingToDelete(content_id) ==
    \/ resp.op = "delete_content" /\ resp.id = content_id /\ resp.code = 200
    \/ content_id > issued

\* C8 (as claimed): such a delete yields no error and an empty list of
\* removed artifacts.
C8_IdempotentDelete ==
    [][ \A content_id \in Ids, raising \in SUBSET Kinds :
          (NothingToDelete(content_id) /\ delete_content(content_id, raising)) =>
            /\ resp'.code = 200
            /\ resp'.deleted_items = {} ]_vars

\* C8 (amended): such a delete fails with 404 "Content not found", removes
\* nothing and leaves the three directories unchanged.
C8_SecondDeleteNotFound ==
    [][ \A content_id \in Ids, raising \in SUBSET Kinds :
          (NothingToDelete(content_id) /\ delete_content(content_id, raising)) =>
            /\ resp'.code = 404
            /\ resp'.detail = "Content not found"
            /\ resp'.deleted_items = {}
            /\ UNCHANGED <<uploadDir, dataDir, imagesDir>> ]_vars

\* C8 witness: a delete of a content_id that had been issued found nothing
\* left to delete and answered 404.
C8_Witness ==
    /\ resp.op = "delete_content"
    /\ resp.code = 404
    /\ resp.id <= issued
    /\ Artifacts(resp.id) = {}

\* C9: after delete_content returns success, none of the artifacts of the
\* content_id exists and deleted_items names exactly those that existed
\* before the call.
C9_DeleteRemovesAll ==
    [][ \A content_id \in Ids, raising \in SUBSET Kinds :
          (/\ resp'.op = "delete_content" /\ resp'.id = content_id
           /\ resp'.code = 200
           /\ delete_content(content_id, raising)) =>
            /\ resp'.deleted_items = Artifacts(content_id)
            /\ Artifacts(content_id)' = {}
            /\ imagesDir'[content_id] = NoDir ]_vars

\* C9 witness: a delete removed all three artifacts of a content_id.
C9_Witness ==
    /\ resp.op = "delete_content"
    /\ resp.code = 200
    /\ resp.deleted_items = Kinds
    /\ Artifacts(resp.id) = {}

\* C10: in delete_content, every artifact that exists and whose own removal
\* does not raise is removed, whichever other removal raises.
C10_IndependentRemovals ==
    [][ \A content_id \in Ids, raising \in SUBSET Kinds :
          delete_content(content_id, raising) =>
            \A k \in Artifacts(content_id) \ raising :
                k \notin Artifacts(content_id)' ]_vars

\* C11: right after process_pdf_file has persisted and returned a record for
\* content_id, get_content_info(content_id) answers with a record equal to
\* the returned one, field for field (image sizes included).
C11_RoundTrip ==
    req.pc = "returned" =>
        LET response == get_content_info_response(req.file_id)
        IN  /\ response.code = 200
            /\ response.data = req.processed_data

\* C12: a read handler called for a content_id with no JSON record answers
\* 404 "Content not found" (the store is as the handler found it: a read
\* handler changes no file).
C12_MissingIsNotFound ==
    (resp.op \in ReadHandlers /\ ~dataDir[resp.id].exists) =>
        /\ resp.code = 404
        /\ resp.detail = "Content not found"

\* The HTTPException(400) upload_pdf raises for its own rejections.
UploadRejections == { "Only PDF files are allowed", "File size exceeds 50MB limit",
                      "Document too large" }

\* C13: a rejection by upload_pdf (a file name that is not a PDF's, more than
\* 50 MiB, more than 100,000 characters) reaches the caller as HTTP 400 with
\* the detail of the rejection, never as the 500 "Error uploading PDF".
C13_RejectionsTagged ==
    (resp.op = "upload_pdf" /\ resp.cause \in UploadRejections) =>
        /\ resp.code = 400
        /\ resp.detail = resp.cause

\* C14: upload_pdf given a file name that does not end in ".pdf" (in any
\* letter case) or a file of more than 50*1024*1024 bytes, and upload_content
\* given a content type outside {pdf-link, youtube, website} or a URL without
\* scheme or host, reject the request without drawing an id or starting the
\* ingestion and leave the upload, data and image directories unchanged; a
\* PDF of exactly 50*1024*1024 bytes passes the size check and is saved.
C14_InvalidInputNoArtifacts ==
    [][ /\ \A u \in UploadRequests :
             (/\ resp'.op = "upload_pdf"
              /\ lower(u.filename.ext) # ".pdf" \/ u.file_size > 50 * 1024 * 1024
              /\ upload_pdf_begin(u.filename, u.file_size)) =>
                /\ UNCHANGED <<uploadDir, dataDir, imagesDir, issued, req>>
                /\ resp'.cause \in { "Only PDF files are allowed",
                                     "File size exceeds 50MB limit" }
        /\ \A u \in UploadRequests :
             (/\ lower(u.filename.ext) = ".pdf" /\ u.file_size = 50 * 1024 * 1024
              /\ upload_pdf_begin(u.filename, u.file_size)) =>
                /\ req'.pc = "open"
                /\ uploadDir' = uploadDir
                                 \cup {[id |-> req'.file_id, filename |-> u.filename]}
                /\ UNCHANGED <<dataDir, imagesDir>>
        /\ \A u \in UploadContentRequests :
             (/\ resp'.op = "upload_content"
              /\ \/ u.content_type \notin {"pdf-link", "youtube", "website"}
                 \/ urlparse(u.url).scheme = ""
                 \/ urlparse(u.url).netloc = ""
              /\ upload_content(u.url, u.content_type)) =>
                /\ UNCHANGED <<uploadDir, dataDir, imagesDir, issued, req>>
                /\ resp'.code = 400 ]_vars

\* C14 witness: upload_pdf has rejected a file of 50 MiB + 1 byte on a store
\* that holds content, and nothing was started for it.
C14_Witness ==
    /\ req.pc = "idle"
    /\ resp.op = "upload_pdf"
    /\ resp.cause = "File size exceeds 50MB limit"
    /\ resp.id = NoId
    /\ \E id \in Ids : Artifacts(id) = Kinds

\* Every page of a record carries the length of its text and the number of
\* its images.
CountsMatch(d) ==
    \A i \in 1..Len(d.pages) :
        /\ d.pages[i].text_length = len(d.pages[i].text)
        /\ d.pages[i].image_count = Len(d.pages[i].images)

\* C15: in the record process_pdf_file assembles and in every record it has
\* persisted, each page has text_length = len(text) and image_count =
\* len(images), the pages that came out empty after a failure included.
C15_CountsMatch ==
    /\ PastGuard => CountsMatch(req.processed_data)
    /\ \A id \in Ids : dataDir[id].complete => CountsMatch(dataDir[id].data)

\* C15 witness: a persisted record with a page that failed (no text, no
\* image) and a page with one character and one image.
C15_Witness ==
    \E id \in Ids :
        /\ dataDir[id].complete
        /\ \E i, j \in 1..Len(dataDir[id].data.pages) :
              /\ dataDir[id].data.pages[i].text = Text(0)
              /\ dataDir[id].data.pages[i].images = << >>
              /\ dataDir[id].data.pages[j].text_length = 1
              /\ dataDir[id].data.pages[j].image_count = 1

\* The names of the images of a page whose handling does not fail, in order.
RECURSIVE sound_names(_)
sound_names(imgs) ==
    IF imgs = << >> THEN << >>
    ELSE (IF Head(imgs).fault = "none" THEN <<Head(imgs).name>> ELSE << >>)
         \o sound_names(Tail(imgs))

\* C16: whichever images of a page fail while they are decoded or written,
\* the page comes out with its text and with every other image, in order.
C16_OnlyFailedImageSkipped ==
    req.pc = "extracted" =>
        /\ resp.content.text = req.page.text
        /\ [k \in 1..Len(resp.content.images) |-> resp.content.images[k].name]
              = sound_names(req.page.imgs)

\* The line the rollback of upload_pdf logs when the removal of an artifact raises.
CleanupError(kind) ==
    IF kind = PdfFile THEN "Failed to clean up PDF file"
    ELSE IF kind = DataFile THEN "Failed to clean up JSON file"
    ELSE "Failed to clean up images directory"

\* C17: in the rollback of upload_pdf after the size limit, every artifact
\* that existed is either removed or the error of its removal is logged,
\* whichever other removals raised, and the request ends with the
\* "Document too large" rejection carrying the size-limit error.
C17_DeletionsIndependent ==
    [][ (req.pc = "failed" /\ req.exc.type = "ValueError" /\ req'.pc = "idle") =>
          /\ \A id \in {req.file_id} : \A kind \in Artifacts(id) :
                (kind \in Artifacts(id)') <=> (CleanupError(kind) \in log')
          /\ resp'.op = "upload_pdf" /\ resp'.id = req.file_id
          /\ resp'.cause = "Document too large"
          /\ resp'.error = req.exc ]_vars

\* C17 witness: a rollback in which the removal of the source file raised and
\* the image directory was removed all the same.
C17_Witness ==
    /\ UploadReturned /\ resp.cause = "Document too large"
    /\ PdfFile \in Artifacts(resp.id)
    /\ "Failed to clean up PDF file" \in log
    /\ ImagesDirectory \notin Artifacts(resp.id)
    /\ "Failed to clean up images directory" \notin log

\* C18: get_youtube_transcript for a URL in which the regular expression
\* finds no 11-character video id answers HTTP 400 (a client error), and
\* writes no transcript record.
C18_NoIdIsInvalidInput ==
    [][ \A y \in YoutubeRequests :
          (/\ resp'.op = "get_youtube_transcript"
           /\ YOUTUBE_REGEX(y.url) = {}
           /\ get_youtube_transcript(y.url, y.fetched, y.dump)) =>
             /\ resp'.code = 400
             /\ UNCHANGED <<dataDir, issued>> ]_vars

\* C19: when the transcript service returns no snippet for the video id of
\* the URL, get_youtube_transcript answers HTTP 404 "No transcript available
\* for this video", draws no content id and leaves the data directory as it was.
C19_EmptyTranscriptNotFound ==
    [][ \A y \in YoutubeRequests :
          (/\ resp'.op = "get_youtube_transcript"
           /\ YOUTUBE_REGEX(y.url) # {}
           /\ y.fetched.raises = "none" /\ y.fetched.snippets = << >>
           /\ get_youtube_transcript(y.url, y.fetched, y.dump)) =>
             /\ resp'.code = 404
             /\ resp'.detail = "No transcript available for this video"
             /\ UNCHANGED <<dataDir, issued>> ]_vars

\* C19 witness: a record is stored, and a later request whose video has no
\* transcript was answered 404 without an id.
C19_Witness ==
    /\ resp.op = "get_youtube_transcript"
    /\ resp.code = 404 /\ resp.id = NoId
    /\ resp.detail = "No transcript available for this video"
    /\ log = {}
    /\ \E i \in Ids : dataDir[i].exists

\* Runs of whitespace collapsed to single spaces, none at either end.
WhitespaceNormalized(text) ==
    /\ \A k \in 1..Len(text) : text[k] \in Whitespace => text[k] = " "
    /\ \A k \in 1..(Len(text) - 1) : ~(text[k] = " " /\ text[k + 1] = " ")
    /\ text # << >> => (text[1] # " " /\ text[Len(text)] # " ")

\* C20: every transcript record in the data directory holds a
\* whitespace-normalized transcript, and its text_length is the length of
\* that transcript.
C20_TranscriptNormalized ==
    \A i \in Ids :
        (dataDir[i].complete /\ "transcript" \in DOMAIN dataDir[i].data) =>
            /\ WhitespaceNormalized(dataDir[i].data.transcript)
            /\ dataDir[i].data.text_length = Len(dataDir[i].data.transcript)

\* C20 witness: the record of a transcript whose snippets held a double space,
\* a line break and a trailing space.
C20_Witness ==
    \E i \in Ids :
        /\ dataDir[i].complete /\ "transcript" \in DOMAIN dataDir[i].data
        /\ dataDir[i].data.transcript = <<"a", " ", "a", " ", "a">>
        /\ dataDir[i].data.text_length = 5

\* C30: every transcript record in the data directory has a transcript of at
\* least one character, with text_length counting it.
C30_TranscriptNotEmpty ==
    \A i \in Ids :
        (dataDir[i].complete /\ "transcript" \in DOMAIN dataDir[i].data) =>
            /\ dataDir[i].data.transcript # << >>
            /\ dataDir[i].data.text_length >= 1

\* The image records of the content records in the data directory.
StoredImages ==
    UNION { { dataDir[i].data.pages[p].images[k] :
                k \in 1..Len(dataDir[i].data.pages[p].images) } :
            <<i, p>> \in { ip \in Ids \X (1..MaxPages) :
                             /\ dataDir[ip[1]].complete
                             /\ "pages" \in DOMAIN dataDir[ip[1]].data
                             /\ ip[2] <= Len(dataDir[ip[1]].data.pages) } }

\* C25: the image_format of every stored image record is a string, the
\* format PIL decoded or "unknown", and never null.
C25_FormatNeverNull ==
    \A image \in StoredImages :
        /\ image.image_format.json = "string"
        /\ image.image_format.items \in { <<"PNG">>, <<"unknown">> }

\* The length of the base64 encoding of n bytes: the least multiple of 4
\* with three bytes to every four characters.
EncodedLength(nbytes) ==
    CHOOSE c \in 0..(4 * nbytes) :
        /\ c % 4 = 0 /\ 3 * c >= 4 * nbytes
        /\ \A d \in 0..(4 * nbytes) : (d % 4 = 0 /\ 3 * d >= 4 * nbytes) => c <= d

\* C26: in every stored image record base64_preview is the first 100
\* characters of the base64 encoding of the image's bytes followed by "..."
\* when the encoding is longer than 100 characters, and the whole encoding
\* with nothing appended otherwise; the record has no field for the bytes or
\* for the full encoding.
C26_PreviewTruncated ==
    req.pc = "stored" =>
        \A image \in StoredImages :
            /\ \E img \in { req.page.imgs[k] : k \in 1..Len(req.page.imgs) } :
                  /\ img.name = image.image_name
                  /\ image.base64_preview =
                        IF EncodedLength(img.nbytes) > 100
                        THEN [chars |-> 100, suffix |-> "..."]
                        ELSE [chars |-> EncodedLength(img.nbytes), suffix |-> ""]
            /\ DOMAIN image = { "image_index", "image_name", "image_format",
                                "image_size", "image_path", "base64_preview" }

\* C26 witness: a stored page with an image of 76 bytes (104 characters,
\* cut) and one of 75 bytes (100 characters, whole).
C26_Witness ==
    /\ req.pc = "stored"
    /\ \E long, short \in StoredImages :
          /\ long.image_name = "Im0.png"
          /\ long.base64_preview = [chars |-> 100, suffix |-> "..."]
          /\ short.image_name = "Im1.png"
          /\ short.base64_preview = [chars |-> 100, suffix |-> ""]

\* C28: after process_pdf_file has written the record of a document, the
\* image records of the record and the files of the document's image
\* directory correspond one to one: every image_path is a file of the
\* directory, two image records never have the same image_path, and every
\* file of the directory is the image_path of a record.
C28_FilesMatchRecords ==
    req.pc = "stored" =>
        LET pages == dataDir[req.file_id].data.pages
            records == { <<p, k>> \in (1..Len(pages)) \X (1..MaxImages) :
                           k <= Len(pages[p].images) }
            files == imagesDir[req.file_id].files
        IN  /\ \A r \in records : pages[r[1]].images[r[2]].image_path \in files
            /\ \A r1, r2 \in records :
                  pages[r1[1]].images[r1[2]].image_path
                     = pages[r2[1]].images[r2[2]].image_path => r1 = r2
            /\ \A f \in files :
                  \E r \in records : pages[r[1]].images[r[2]].image_path = f

\* C22: as long as the source file of an uploaded document is stored (under
\* "<content_id>_<filename>", whatever the letter case of its ".pdf"),
\* get_pdf_file(content_id) finds it and serves it.
C22_PdfServed ==
    [][ \A content_id \in Ids, case_sensitive \in BOOLEAN :
          (/\ resp'.op = "get_pdf_file"
           /\ glob_uploads(content_id) # {}
           /\ get_pdf_file(content_id, case_sensitive)) =>
             /\ resp'.code = 200
             /\ resp'.data.served \in glob_uploads(content_id) ]_vars

\* The topic-extractor view of a stored record: total_pages and, for every
\* stored page in order, its page_number and its text as content.
TopicExtractorView(record) ==
    [ total_pages |-> record.total_pages,
      pages |-> [i \in 1..Len(record.pages) |->
                   [ page_number |-> record.pages[i].page_number,
                     content |-> record.pages[i].text ]] ]

\* C23: for a stored document record, the HTTP handler topic_extractor_content
\* and the function topic_extractor_content of utils both return that view,
\* with no other field.
C23_TopicExtractorView ==
    (/\ resp.op \in {"topic_extractor_content", "utils.topic_extractor_content"}
     /\ dataDir[resp.id].complete
     /\ "pages" \in DOMAIN dataDir[resp.id].data) =>
        LET view == TopicExtractorView(dataDir[resp.id].data)
        IN  IF resp.op = "topic_extractor_content"
            THEN resp.code = 200 /\ resp.data = view
            ELSE /\ resp.data.raised = "none"
                 /\ [total_pages |-> resp.data.total_pages,
                     pages |-> resp.data.pages] = view

\* C24: for a stored record with total_pages = N, get_page_content(content_id,
\* n) returns the page record whose page_number is n when n is in 1..N, and
\* answers 404 "Page n not found" for every other n and for a transcript
\* record, which has no pages.
C24_PageOrNotFound ==
    [][ \A content_id \in Ids, page_number \in PageNumbers :
          (/\ resp'.op = "get_page_content"
           /\ dataDir[content_id].complete
           /\ get_page_content(content_id, page_number)) =>
             LET record == dataDir[content_id].data
                 N == IF "pages" \in DOMAIN record THEN record.total_pages ELSE 0
             IN  IF page_number \in 1..N
                 THEN /\ resp'.code = 200
                      /\ resp'.data = json_load(record).pages[page_number]
                      /\ resp'.data.page_number = page_number
                 ELSE /\ resp'.code = 404
                      /\ resp'.detail = "Page not found" ]_vars

\* C29: delete_content(content_id), for every string a caller can pass,
\* leaves the source files, the JSON record and the image directory of every
\* content id other than exactly that string as they were.
C29_DeleteOnlyOwn ==
    [][ \A content_id \in ContentIdStrings :
          \A raising \in DeleteAnyFaults(content_id) :
             (/\ resp'.op = "delete_content"
              /\ resp'.data = [content_id |-> content_id]
              /\ delete_content_any(content_id, raising)) =>
                \A i \in Ids :
                    content_id # IdString(i) =>
                        /\ glob_uploads(i)' = glob_uploads(i)
                        /\ dataDir'[i] = dataDir[i]
                        /\ imagesDir'[i] = imagesDir[i] ]_vars

\* C27: in process_pdf_file the pages are walked in order 0..page_count-1,
\* each page's images being written to the image directory of the content id
\* as it is walked; the size guard is evaluated only after the last page; the
\* JSON file is opened and written only after the guard has passed; and when
\* the guard fails no JSON file of the content id exists or has existed
\* during the call.
C27_GuardAfterWalkBeforeRecord ==
    [][ /\ (req.pc = "walk" /\ req'.pc = "walk") =>
              /\ req'.page_num = req.page_num + 1
              /\ Len(req'.all_content) = req'.page_num
              /\ req'.all_content[req'.page_num].page_number = req.page_num
              /\ \A id \in {req.file_id} :
                    \A k \in 1..Len(req'.all_content[req'.page_num].images) :
                        req'.all_content[req'.page_num].images[k].file_path
                            \in imagesDir'[id].files
        /\ (req.pc = "walk" /\ req'.pc # "walk") =>
              /\ req.page_num = req.num_pages
              /\ Len(req.all_content) = req.num_pages
              /\ req'.pc = "persist" <=> ~(total_characters(req.all_content) > CharLimit)
              /\ req'.pc = "failed" <=> SizeLimitExceeded(req'.exc)
        /\ (req.pc \in {"open", "walk"}) =>
              /\ ~dataDir[req.file_id].exists
              /\ dataDir' = dataDir
        /\ (req'.pc \in {"persist", "dump"} /\ req.pc # req'.pc) =>
              req.pc = IF req'.pc = "persist" THEN "walk" ELSE "persist"
        /\ (req'.pc = "failed" /\ SizeLimitExceeded(req'.exc)) =>
              \A id \in {req.file_id} : ~dataDir'[id].exists ]_vars

\* C27 witness: the guard failed on a document of two pages after both were
\* walked and an image was written; no JSON file exists.
C27_Witness ==
    /\ req.pc = "failed" /\ SizeLimitExceeded(req.exc)
    /\ req.num_pages = 2 /\ Len(req.all_content) = 2
    /\ imagesDir[req.file_id].files # {}
    /\ ~dataDir[req.file_id].exists

\* The paths a request writes to.
WrittenPaths(r) ==
    IF r.file_id = NoId THEN {}
    ELSE { <<"uploads", upload_file_path(r.file_id, r.filename)>>,
           <<"data", json_file_path(r.file_id)>>,
           <<"data/images", image_dir_path(r.file_id)>> }

\* The artifacts of a content id in given directories, with their content.
ArtifactsOf(d, content_id) ==
    [ files |-> { f \in d.uploadDir : f.id = content_id },
      record |-> d.dataDir[content_id],
      images |-> d.imagesDir[content_id] ]

\* C21: under every interleaving of the steps of concurrent upload_pdf
\* requests with different content ids, the paths two requests write are
\* disjoint, and each request is where it is when it takes the same steps
\* alone: the same position, the same artifacts of its content id, the same
\* response and the same log.
C21_IngestionsIndependent ==
    /\ \A p, q \in Ingestions :
          p # q => WrittenPaths(req[p].run) \cap WrittenPaths(req[q].run) = {}
    /\ \A p \in Ingestions :
          /\ req[p].run = req[p].alone.r
          /\ ArtifactsOf(Dirs(uploadDir, dataDir, imagesDir), p)
                = ArtifactsOf(req[p].alone.d, p)
          /\ resp[p] = req[p].alone.resp
          /\ log[p] = req[p].alone.log

\* C21 witness: two requests are in progress at once: the first has opened
\* its JSON file and not yet written it, the second has walked two pages and
\* failed the size guard, its source file still in place.
C21_Witness ==
    /\ req[1].run.pc = "dump" /\ dataDir[1].exists /\ ~dataDir[1].complete
    /\ imagesDir[1].files # {}
    /\ req[2].run.pc = "failed" /\ SizeLimitExceeded(req[2].run.exc)
    /\ Len(req[2].run.all_content) = 2
    /\ PdfFile \in Artifacts(2)
====
